---- MODULE Spec2Model ----
(***************************************************************************)
(* The cluster-record API of kismatic (pkg/server/http/handler/clusters.go) *)
(* as a state machine: the record store, the request handlers Create,       *)
(* Update and Delete run by concurrent callers (each store call is one      *)
(* step), the validation engine as operators, and the external reconciler   *)
(* that consumes the continuation gate.                                     *)
(***************************************************************************)
EXTENDS Integers, Sequences, FiniteSets, TLC

VARIABLES
    store,      \* store.ClusterStore: name -> store.Cluster or Nil (no record)
    pc,         \* per caller: the position of its handler
    req,        \* per caller: the decoded ClusterRequest being handled, or Nil
    id,         \* per caller: the :name path parameter (Update, Delete), or ""
    sc,         \* per caller: the *store.Cluster held between a Get and a Put, or Nil
    resp,       \* per caller: the last answer written to the ResponseWriter
    race,       \* per caller: bookkeeping of overlapping Creates of one free name
    vin,        \* input of a validation run (pure-function checks), or Nil
    vout,       \* output of a validation run, or Nil
    files       \* AssetsDir: name -> the paths present under AssetsDir/name

vars == <<store, pc, req, id, sc, resp, race, vin, vout, files>>

-----------------------------------------------------------------------------
(* Bounds and value sets.                                                   *)

\* Largest node count the requests are drawn from.
MaxCount == 2

\* A nil pointer / an absent record.
Nil == [nil |-> TRUE]

Procs == {"c1", "c2"}

\* Keys the store can hold in the handler specification.
StoreNames == {"foo", "bar"}

validStates == <<"installed">>

validProvisionerProviders == <<"aws">>

\* util.Contains(x, list)
Contains(x, list) == \E i \in 1..Len(list) : list[i] = x

StatusOK == 200

StatusAccepted == 202

StatusBadRequest == 400

StatusNotFound == 404

StatusConflict == 409

StatusInternalServerError == 500

-----------------------------------------------------------------------------
(* Requests.                                                                *)

\* handler.AWSProvisionerOptions: the embedded install options carry no
\* credential; AccessKeyID and SecretAccessKey are the two added fields.
AWSOptions(key, secret) == [AccessKeyID |-> key, SecretAccessKey |-> secret]

Provisioner(provider, options) == [Provider |-> provider, AWSOptions |-> options]

ClusterRequest(name, ds, etcd, master, worker, ingress, prov) ==
    [Name |-> name, DesiredState |-> ds, EtcdCount |-> etcd,
     MasterCount |-> master, WorkerCount |-> worker, IngressCount |-> ingress,
     Provisioner |-> prov]

-----------------------------------------------------------------------------
(* Validation engine.                                                       *)

\* validator.addError under a condition: the violation is appended or not.
addErrorIf(cond, msg) == IF cond THEN <<msg>> ELSE <<>>

\* validator.valid: ok exactly when no error was added.
valid(errs) == Len(errs) = 0

\* Provisioner.validate without the check of the secret access key.
ProvisionerValidateNoSecret(p) ==
    IF p.Provider = ""
    THEN <<"provisioner.provider cannot be empty">>
    ELSE addErrorIf(~Contains(p.Provider, validProvisionerProviders),
                    p.Provider \o " is not a valid provisioner.provider, options are: [aws]")
         \o (IF p.Provider = "aws"
             THEN addErrorIf(p.AWSOptions = Nil \/ p.AWSOptions.AccessKeyID = "",
                             "provisioner.options.accessKeyID cannot be empty")
             ELSE <<>>)

\* Provisioner.validate: the errors it collects, in order.
ProvisionerValidate(p) ==
    IF p.Provider = ""
    THEN <<"provisioner.provider cannot be empty">>
    ELSE addErrorIf(~Contains(p.Provider, validProvisionerProviders),
                    p.Provider \o " is not a valid provisioner.provider, options are: [aws]")
         \o (IF p.Provider = "aws"
             THEN addErrorIf(p.AWSOptions = Nil \/ p.AWSOptions.AccessKeyID = "",
                             "provisioner.options.accessKeyID cannot be empty")
                  \o addErrorIf(p.AWSOptions = Nil \/ p.AWSOptions.SecretAccessKey = "",
                                "provisioner.options.secretAccessKey cannot be empty")
             ELSE <<>>)

\* The count and provisioner rules of ClusterRequest.validate, with the
\* bounds the master and ingress counts are checked against.
countErrors(r, masterMin, ingressMin) ==
    addErrorIf(r.EtcdCount <= 0, "cluster.etcdCount must be greater than 0")
    \o addErrorIf(r.MasterCount < masterMin, "cluster.masterCount must be greater than 0")
    \o addErrorIf(r.WorkerCount <= 0, "cluster.workerCount must be greater than 0")
    \o addErrorIf(r.IngressCount < ingressMin, "cluster.ingressCount must be greater than or equal to 0")
    \o ProvisionerValidate(r.Provisioner)

\* The desiredState rule of ClusterRequest.validate.
stateErrors(r) ==
    IF r.DesiredState = ""
    THEN <<"desiredState cannot be empty">>
    ELSE addErrorIf(~Contains(r.DesiredState, validStates),
                    r.DesiredState \o " is not a valid desiredState, options are: [installed]")

\* ClusterRequest.validate returning at the first violation.
ClusterRequestValidateFirst(r) ==
    LET all == addErrorIf(r.Name = "", "name cannot be empty")
               \o stateErrors(r) \o countErrors(r, 1, 0)
    IN  IF all = <<>> THEN <<>> ELSE <<Head(all)>>

\* ClusterRequest.validate rejecting an ingress count of 0.
ClusterRequestValidateIngressStrict(r) ==
    addErrorIf(r.Name = "", "name cannot be empty") \o stateErrors(r) \o countErrors(r, 1, 1)

\* ClusterRequest.validate without the name rule.
ClusterRequestValidateNoName(r) == stateErrors(r) \o countErrors(r, 1, 0)

\* ClusterRequest.validate accepting a master count of 0.
ClusterRequestValidateMasterZero(r) ==
    addErrorIf(r.Name = "", "name cannot be empty") \o stateErrors(r) \o countErrors(r, 0, 0)

\* ClusterRequest.validate without a lower bound on the ingress count.
ClusterRequestValidateIngressAny(r) ==
    addErrorIf(r.Name = "", "name cannot be empty") \o stateErrors(r) \o countErrors(r, 1, -1)

\* ClusterRequest.validate: the errors it collects, in order.
ClusterRequestValidate(r) ==
    addErrorIf(r.Name = "", "name cannot be empty")
    \o (IF r.DesiredState = ""
        THEN <<"desiredState cannot be empty">>
        ELSE addErrorIf(~Contains(r.DesiredState, validStates),
                        r.DesiredState \o " is not a valid desiredState, options are: [installed]"))
    \o addErrorIf(r.EtcdCount <= 0, "cluster.etcdCount must be greater than 0")
    \o addErrorIf(r.MasterCount <= 0, "cluster.masterCount must be greater than 0")
    \o addErrorIf(r.WorkerCount <= 0, "cluster.workerCount must be greater than 0")
    \o addErrorIf(r.IngressCount < 0, "cluster.ingressCount must be greater than or equal to 0")
    \o ProvisionerValidate(r.Provisioner)

\* clusterPatch.validate: the create rules on the request, then the identity
\* rules against the path id and the stored record.
clusterPatchValidate(cp) ==
    ClusterRequestValidate(cp.request)
    \o addErrorIf(cp.id # cp.request.Name, "name must match the cluster being updated")
    \o addErrorIf(cp.request.Name # cp.inStore.Plan.Cluster.Name, "name may not be modified")
    \o addErrorIf(cp.request.EtcdCount # cp.inStore.Plan.Etcd.ExpectedCount,
                  "cluster.etcdCount may not be modified")

-----------------------------------------------------------------------------
(* Store records.                                                           *)

\* install.AWSProvisionerOptions, the part of the request options that is
\* copied into the plan. It has no credential field.
InstallAWSOptions == [install |-> TRUE]

\* store.ProvisionerCredentials
ProvisionerCredentials(key, secret) == [AWS |-> [AccessKeyId |-> key, SecretAccessKey |-> secret]]

\* install.WritePlanTemplate + BytesPlanner.Read: the plan the template
\* expands to for the requested group sizes.
PlanTemplate(etcd, master, worker, ingress) ==
    [Cluster |-> [Name |-> ""],
     Etcd |-> [ExpectedCount |-> etcd],
     Master |-> [ExpectedCount |-> master, LoadBalancedFQDN |-> ""],
     Worker |-> [ExpectedCount |-> worker],
     Ingress |-> [ExpectedCount |-> ingress],
     Provisioner |-> [Provider |-> "", AWSOptions |-> Nil]]

\* buildStoreCluster leaving the continuation gate unset.
storeClusterOfGateUnset(r, p) ==
    [DesiredState |-> r.DesiredState,
     CurrentState |-> "planned",
     Plan |-> [p EXCEPT !.Cluster.Name = r.Name,
                        !.Provisioner = [Provider |-> r.Provisioner.Provider,
                                         AWSOptions |-> InstallAWSOptions]],
     CanContinue |-> FALSE,
     ProvisionerCredentials |->
         ProvisionerCredentials(r.Provisioner.AWSOptions.AccessKeyID,
                                r.Provisioner.AWSOptions.SecretAccessKey)]

\* The defaults buildStoreCluster sets in a plan p for request r, and the
\* record it returns around it.
storeClusterOf(r, p) ==
    LET plan == [p EXCEPT !.Cluster.Name = r.Name,
                          !.Provisioner =
                              [Provider |-> r.Provisioner.Provider,
                               AWSOptions |-> IF r.Provisioner.AWSOptions # Nil
                                              THEN InstallAWSOptions ELSE Nil]]
    IN  [DesiredState |-> r.DesiredState,
         CurrentState |-> "planned",
         Plan |-> plan,
         CanContinue |-> TRUE,
         ProvisionerCredentials |->
             IF plan.Provisioner.Provider = "aws" /\ r.Provisioner.AWSOptions # Nil
             THEN ProvisionerCredentials(r.Provisioner.AWSOptions.AccessKeyID,
                                         r.Provisioner.AWSOptions.SecretAccessKey)
             ELSE ProvisionerCredentials("", "")]

\* buildStoreCluster(req)
buildStoreCluster(r) ==
    storeClusterOf(r, PlanTemplate(r.EtcdCount, r.MasterCount, r.WorkerCount, r.IngressCount))

\* The plan builder on a patch: the requested group sizes are merged onto
\* the stored plan, whose other fields are kept.
mergeStoreCluster(r, existing) ==
    storeClusterOf(r, [existing.Plan EXCEPT !.Master.ExpectedCount = r.MasterCount,
                                            !.Worker.ExpectedCount = r.WorkerCount,
                                            !.Ingress.ExpectedCount = r.IngressCount])

\* buildResponse reporting the desired state as the current state.
buildResponseDesiredAsCurrent(name, c) ==
    [Name |-> name,
     DesiredState |-> c.DesiredState,
     CurrentState |-> c.DesiredState,
     ClusterIP |-> c.Plan.Master.LoadBalancedFQDN,
     EtcdCount |-> c.Plan.Etcd.ExpectedCount,
     MasterCount |-> c.Plan.Master.ExpectedCount,
     WorkerCount |-> c.Plan.Worker.ExpectedCount,
     IngressCount |-> c.Plan.Ingress.ExpectedCount,
     Provisioner |->
         [Provider |-> c.Plan.Provisioner.Provider,
          AWSOptions |-> IF c.Plan.Provisioner.Provider = "aws"
                            /\ c.Plan.Provisioner.AWSOptions # Nil
                         THEN AWSOptions("", "") ELSE Nil]]

\* buildResponse filling the options with the stored credentials.
buildResponseEchoesCredentials(name, c) ==
    [Name |-> name,
     DesiredState |-> c.DesiredState,
     CurrentState |-> c.CurrentState,
     ClusterIP |-> c.Plan.Master.LoadBalancedFQDN,
     EtcdCount |-> c.Plan.Etcd.ExpectedCount,
     MasterCount |-> c.Plan.Master.ExpectedCount,
     WorkerCount |-> c.Plan.Worker.ExpectedCount,
     IngressCount |-> c.Plan.Ingress.ExpectedCount,
     Provisioner |->
         [Provider |-> c.Plan.Provisioner.Provider,
          AWSOptions |-> IF c.Plan.Provisioner.Provider = "aws"
                            /\ c.Plan.Provisioner.AWSOptions # Nil
                         THEN AWSOptions(c.ProvisionerCredentials.AWS.AccessKeyId,
                                         c.ProvisionerCredentials.AWS.SecretAccessKey)
                         ELSE Nil]]

\* buildResponse(name, sc)
buildResponse(name, c) ==
    [Name |-> name,
     DesiredState |-> c.DesiredState,
     CurrentState |-> c.CurrentState,
     ClusterIP |-> c.Plan.Master.LoadBalancedFQDN,
     EtcdCount |-> c.Plan.Etcd.ExpectedCount,
     MasterCount |-> c.Plan.Master.ExpectedCount,
     WorkerCount |-> c.Plan.Worker.ExpectedCount,
     IngressCount |-> c.Plan.Ingress.ExpectedCount,
     Provisioner |->
         [Provider |-> c.Plan.Provisioner.Provider,
          AWSOptions |-> IF c.Plan.Provisioner.Provider = "aws"
                            /\ c.Plan.Provisioner.AWSOptions # Nil
                         THEN AWSOptions("", "") ELSE Nil]]

-----------------------------------------------------------------------------
(* Store calls.                                                             *)

\* ClusterStore.Get(key): the record, or Nil when there is none.
storeGet(name) == IF name \in DOMAIN store THEN store[name] ELSE Nil

\* ClusterStore.Put(key, cluster): unconditional overwrite.
storePut(name, c) == [store EXCEPT ![name] = c]

\* ClusterStore.Delete(key): hard removal.
storeDelete(name) == [store EXCEPT ![name] = Nil]

\* existsInStore never reporting a record.
existsInStoreNever(name, err) == [exists |-> FALSE, err |-> err]

\* existsInStore(name, cs); err: the backend call failed.
existsInStore(name, err) ==
    IF err THEN [exists |-> FALSE, err |-> TRUE]
    ELSE [exists |-> storeGet(name) # Nil, err |-> FALSE]

\* getFromStore reporting a failed backend call as a missing record.
getFromStoreErrIsNotFound(name, err) ==
    IF err \/ storeGet(name) = Nil THEN [sc |-> Nil, err |-> "ErrClusterNotFound"]
    ELSE [sc |-> storeGet(name), err |-> ""]

\* getFromStore(name, cs); err: the backend call failed.
getFromStore(name, err) ==
    IF err THEN [sc |-> Nil, err |-> "could not get from the store"]
    ELSE IF storeGet(name) = Nil THEN [sc |-> Nil, err |-> "ErrClusterNotFound"]
    ELSE [sc |-> storeGet(name), err |-> ""]

\* ClusterStore.GetAll(): the records by name; a backend that holds no
\* record may return a nil map (absent) instead of an empty one.
storeGetAll(absent) ==
    IF absent THEN Nil ELSE [n \in {k \in DOMAIN store : store[k] # Nil} |-> store[n]]

\* getAllFromStore(cs); err: the backend call failed; a nil map is replaced
\* by an empty one.
getAllFromStore(err, absent) ==
    IF err THEN [msc |-> Nil, err |-> "could not get from the store"]
    ELSE IF storeGetAll(absent) = Nil
    THEN [msc |-> [n \in {} |-> Nil], err |-> ""]
    ELSE [msc |-> storeGetAll(absent), err |-> ""]

-----------------------------------------------------------------------------
(* Answers.                                                                 *)

\* What a handler wrote to its ResponseWriter: the status code, the body
\* text, the validation messages (400) and the cluster JSON (Update).
Response(op, name, code, body, errs, cluster) ==
    [op |-> op, name |-> name, code |-> code, body |-> body, errs |-> errs, cluster |-> cluster]

NoResponse == Response("none", "", 0, "", <<>>, Nil)

\* What a read handler wrote: the status code, the body (the name of what
\* was served), the cluster JSON (Get) or the list of them (GetAll), and
\* the I/O call of the handler that failed, "" when none did.
ReadResponse(op, name, code, body, cluster, failed) ==
    [op |-> op, name |-> name, code |-> code, body |-> body, errs |-> <<>>,
     cluster |-> cluster, failed |-> failed]

\* The operations that only read.
ReadOps == {"get", "getall", "kubeconfig", "logs", "assets"}

\* The orders in which a range over a map with key set S visits the keys.
orders(S) ==
    {o \in [1..Cardinality(S) -> S] : \A i, j \in 1..Cardinality(S) : i # j => o[i] # o[j]}

\* formatErrs(errs): the messages, one per error, in order.
formatErrs(errs) == [i \in 1..Len(errs) |-> errs[i]]

\* A request body that json.Decode rejects.
Malformed == [malformed |-> TRUE]

\* Bookkeeping of a Create: "no" (not overlapping), "on" (it overlaps another
\* Create of the same name, free when the second began), "overwrote" (on, and
\* its Put replaced a record that was already there).
NoRace == "no"

-----------------------------------------------------------------------------
(* Inputs of the handler specification.                                     *)

AWS(key, secret) == Provisioner("aws", AWSOptions(key, secret))

\* The valid requests the callers send: name foo with two etcd counts and
\* two worker counts (1 and the largest count), and name bar.
ValidBodies ==
    {ClusterRequest("foo", "installed", 1, 1, 1, 0, AWS("ACCESS_ID", "SECRET")),
     ClusterRequest("foo", "installed", MaxCount, 1, 1, 0, AWS("ACCESS_ID", "SECRET")),
     ClusterRequest("foo", "installed", 1, 1, MaxCount, 0, AWS("ACCESS_ID_NEW", "SECRET_NEW")),
     ClusterRequest("bar", "installed", 1, 1, 1, 0, AWS("ACCESS_ID", "SECRET"))}

\* The bodies of POST /clusters: the valid requests, two requests that fail
\* validation (one of them for a name that can exist, breaking two rules),
\* and a body that does not decode.
HandlerBodies ==
    ValidBodies
    \cup {ClusterRequest("", "installed", 1, 1, 1, 0, AWS("ACCESS_ID", "SECRET")),
          ClusterRequest("foo", "installed", 0, 1, 1, 0, AWS("ACCESS_ID", "")),
          Malformed}

\* The bodies of PUT /clusters/:name.
PatchBodies == ValidBodies \cup {Malformed}

\* The :name path parameters the callers use for Update and Delete.
HandlerIds == {"foo"}

-----------------------------------------------------------------------------
(* Create: POST /clusters.                                                  *)

\* The callers other than p that are inside a Create of name n.
creating(p, n) ==
    {q \in Procs \ {p} : pc[q] \in {"create_exists", "create_put"} /\ req[q].Name = n}

\* Create looking the name up before it validates the request: an existing
\* name is answered 409 whatever the request.
CreateStartUniqueFirst(p, body) ==
    /\ pc[p] = "idle"
    /\ UNCHANGED <<store, id, sc, vin, vout, files>>
    /\ IF body = Malformed
       THEN /\ resp' = [resp EXCEPT ![p] =
                   Response("create", "", StatusBadRequest, "could not decode body", <<>>, Nil)]
            /\ race' = [race EXCEPT ![p] = NoRace]
            /\ UNCHANGED <<pc, req>>
       ELSE IF storeGet(body.Name) # Nil
       THEN /\ resp' = [resp EXCEPT ![p] =
                   Response("create", body.Name, StatusConflict, "", <<>>, Nil)]
            /\ race' = [race EXCEPT ![p] = NoRace]
            /\ UNCHANGED <<pc, req>>
       ELSE LET errs == ClusterRequestValidate(body) IN
            IF ~valid(errs)
            THEN /\ resp' = [resp EXCEPT ![p] =
                        Response("create", body.Name, StatusBadRequest, "errors",
                                 formatErrs(errs), Nil)]
                 /\ race' = [race EXCEPT ![p] = NoRace]
                 /\ UNCHANGED <<pc, req>>
            ELSE /\ pc' = [pc EXCEPT ![p] = "create_exists"]
                 /\ req' = [req EXCEPT ![p] = body]
                 /\ resp' = [resp EXCEPT ![p] = NoResponse]
                 /\ race' = [race EXCEPT ![p] = NoRace]

\* Decode and validate the body; an invalid request is answered 400 with
\* every message, a valid one goes on to the existence check.
CreateStart(p, body) ==
    /\ pc[p] = "idle"
    /\ UNCHANGED <<store, id, sc, vin, vout, files>>
    /\ IF body = Malformed
       THEN /\ resp' = [resp EXCEPT ![p] =
                   Response("create", "", StatusBadRequest, "could not decode body", <<>>, Nil)]
            /\ race' = [race EXCEPT ![p] = NoRace]
            /\ UNCHANGED <<pc, req>>
       ELSE LET errs == ClusterRequestValidate(body) IN
            IF ~valid(errs)
            THEN /\ resp' = [resp EXCEPT ![p] =
                        Response("create", body.Name, StatusBadRequest, "errors",
                                 formatErrs(errs), Nil)]
                 /\ race' = [race EXCEPT ![p] = NoRace]
                 /\ UNCHANGED <<pc, req>>
            ELSE /\ pc' = [pc EXCEPT ![p] = "create_exists"]
                 /\ req' = [req EXCEPT ![p] = body]
                 /\ resp' = [resp EXCEPT ![p] = NoResponse]
                 /\ race' = IF creating(p, body.Name) # {} /\ storeGet(body.Name) = Nil
                            THEN [q \in Procs |->
                                     IF q = p \/ q \in creating(p, body.Name)
                                     THEN "on" ELSE race[q]]
                            ELSE [race EXCEPT ![p] = NoRace]

\* Confirm the name is unique: one store Get.
CreateExists(p) ==
    /\ pc[p] = "create_exists"
    /\ UNCHANGED <<store, id, sc, race, vin, vout, files>>
    /\ \E err \in BOOLEAN :
          LET e == existsInStore(req[p].Name, err) IN
          IF e.err
          THEN /\ resp' = [resp EXCEPT ![p] =
                      Response("create", req[p].Name, StatusInternalServerError, "", <<>>, Nil)]
               /\ pc' = [pc EXCEPT ![p] = "idle"]
               /\ req' = [req EXCEPT ![p] = Nil]
          ELSE IF e.exists
          THEN /\ resp' = [resp EXCEPT ![p] =
                      Response("create", req[p].Name, StatusConflict, "", <<>>, Nil)]
               /\ pc' = [pc EXCEPT ![p] = "idle"]
               /\ req' = [req EXCEPT ![p] = Nil]
          ELSE /\ pc' = [pc EXCEPT ![p] = "create_put"]
               /\ UNCHANGED <<req, resp>>

\* Build the record and Put it: one store Put.
CreatePut(p) ==
    /\ pc[p] = "create_put"
    /\ UNCHANGED <<id, sc, vin, vout, files>>
    /\ pc' = [pc EXCEPT ![p] = "idle"]
    /\ req' = [req EXCEPT ![p] = Nil]
    /\ \E buildErr \in BOOLEAN, putErr \in BOOLEAN :
          IF buildErr \/ putErr
          THEN /\ resp' = [resp EXCEPT ![p] =
                      Response("create", req[p].Name, StatusInternalServerError, "", <<>>, Nil)]
               /\ UNCHANGED <<store, race>>
          ELSE /\ store' = storePut(req[p].Name, buildStoreCluster(req[p]))
               /\ resp' = [resp EXCEPT ![p] =
                      Response("create", req[p].Name, StatusAccepted, "ok\n", <<>>, Nil)]
               /\ race' = [race EXCEPT ![p] =
                      IF race[p] = "on" /\ storeGet(req[p].Name) # Nil
                      THEN "overwrote" ELSE race[p]]

-----------------------------------------------------------------------------
(* Delete: DELETE /clusters/:name (logical delete).                         *)

\* Delete marking a zero record destroyed when the name has no record.
DeleteGetUpsert(p, name) ==
    /\ pc[p] = "idle"
    /\ UNCHANGED <<store, req, vin, vout, files>>
    /\ race' = [race EXCEPT ![p] = NoRace]
    /\ \E err \in BOOLEAN :
          IF err
          THEN /\ resp' = [resp EXCEPT ![p] =
                      Response("delete", name, StatusInternalServerError, "", <<>>, Nil)]
               /\ UNCHANGED <<pc, id, sc>>
          ELSE /\ pc' = [pc EXCEPT ![p] = "delete_put"]
               /\ id' = [id EXCEPT ![p] = name]
               /\ sc' = [sc EXCEPT ![p] =
                      IF storeGet(name) # Nil
                      THEN [storeGet(name) EXCEPT !.DesiredState = "destroyed",
                                                  !.CanContinue = TRUE]
                      ELSE [DesiredState |-> "destroyed", CurrentState |-> "",
                            Plan |-> PlanTemplate(0, 0, 0, 0), CanContinue |-> TRUE,
                            ProvisionerCredentials |-> ProvisionerCredentials("", "")]]
               /\ resp' = [resp EXCEPT ![p] = NoResponse]

\* Get the record and mark the local copy destroyed: one store Get.
DeleteGet(p, name) ==
    /\ pc[p] = "idle"
    /\ UNCHANGED <<store, req, vin, vout, files>>
    /\ race' = [race EXCEPT ![p] = NoRace]
    /\ \E err \in BOOLEAN :
          LET g == getFromStore(name, err) IN
          IF g.err # ""
          THEN /\ resp' = [resp EXCEPT ![p] =
                      Response("delete", name,
                               IF g.err = "ErrClusterNotFound"
                               THEN StatusNotFound ELSE StatusInternalServerError,
                               "", <<>>, Nil)]
               /\ UNCHANGED <<pc, id, sc>>
          ELSE /\ pc' = [pc EXCEPT ![p] = "delete_put"]
               /\ id' = [id EXCEPT ![p] = name]
               /\ sc' = [sc EXCEPT ![p] =
                      [g.sc EXCEPT !.DesiredState = "destroyed", !.CanContinue = TRUE]]
               /\ resp' = [resp EXCEPT ![p] = NoResponse]

\* Delete removing the record with the store's hard Delete.
DeletePutHard(p) ==
    /\ pc[p] = "delete_put"
    /\ UNCHANGED <<req, race, vin, vout, files>>
    /\ pc' = [pc EXCEPT ![p] = "idle"]
    /\ id' = [id EXCEPT ![p] = ""]
    /\ sc' = [sc EXCEPT ![p] = Nil]
    /\ store' = storeDelete(id[p])
    /\ resp' = [resp EXCEPT ![p] =
           Response("delete", id[p], StatusAccepted, "ok\n", <<>>, Nil)]

\* Put the marked copy back: one store Put.
DeletePut(p) ==
    /\ pc[p] = "delete_put"
    /\ UNCHANGED <<req, race, vin, vout, files>>
    /\ pc' = [pc EXCEPT ![p] = "idle"]
    /\ id' = [id EXCEPT ![p] = ""]
    /\ sc' = [sc EXCEPT ![p] = Nil]
    /\ \E putErr \in BOOLEAN :
          IF putErr
          THEN /\ resp' = [resp EXCEPT ![p] =
                      Response("delete", id[p], StatusInternalServerError, "", <<>>, Nil)]
               /\ UNCHANGED store
          ELSE /\ store' = storePut(id[p], sc[p])
               /\ resp' = [resp EXCEPT ![p] =
                      Response("delete", id[p], StatusAccepted, "ok\n", <<>>, Nil)]

-----------------------------------------------------------------------------
(* Update: PUT /clusters/:name (patch).                                     *)

\* Decode the body, Get the stored record, validate the patch against it
\* and merge it onto the stored plan: one store Get.
UpdateGet(p, name, body) ==
    /\ pc[p] = "idle"
    /\ UNCHANGED <<store, vin, vout, files>>
    /\ race' = [race EXCEPT ![p] = NoRace]
    /\ IF body = Malformed
       THEN /\ resp' = [resp EXCEPT ![p] =
                   Response("update", name, StatusBadRequest, "could not decode body", <<>>, Nil)]
            /\ UNCHANGED <<pc, req, id, sc>>
       ELSE \E err \in BOOLEAN :
          LET g == getFromStore(name, err) IN
          IF g.err # ""
          THEN /\ resp' = [resp EXCEPT ![p] =
                      Response("update", name,
                               IF g.err = "ErrClusterNotFound"
                               THEN StatusNotFound ELSE StatusInternalServerError,
                               "", <<>>, Nil)]
               /\ UNCHANGED <<pc, req, id, sc>>
          ELSE LET errs == clusterPatchValidate([id |-> name, request |-> body, inStore |-> g.sc]) IN
               IF ~valid(errs)
               THEN /\ resp' = [resp EXCEPT ![p] =
                           Response("update", name, StatusBadRequest, "errors",
                                    formatErrs(errs), Nil)]
                    /\ UNCHANGED <<pc, req, id, sc>>
               ELSE /\ pc' = [pc EXCEPT ![p] = "update_put"]
                    /\ req' = [req EXCEPT ![p] = body]
                    /\ id' = [id EXCEPT ![p] = name]
                    /\ sc' = [sc EXCEPT ![p] = mergeStoreCluster(body, g.sc)]
                    /\ resp' = [resp EXCEPT ![p] = NoResponse]

\* Put the merged record and answer with it: one store Put.
UpdatePut(p) ==
    /\ pc[p] = "update_put"
    /\ UNCHANGED <<race, vin, vout, files>>
    /\ pc' = [pc EXCEPT ![p] = "idle"]
    /\ req' = [req EXCEPT ![p] = Nil]
    /\ id' = [id EXCEPT ![p] = ""]
    /\ sc' = [sc EXCEPT ![p] = Nil]
    /\ \E putErr \in BOOLEAN :
          IF putErr
          THEN /\ resp' = [resp EXCEPT ![p] =
                      Response("update", id[p], StatusInternalServerError, "", <<>>, Nil)]
               /\ UNCHANGED store
          ELSE /\ store' = storePut(req[p].Name, sc[p])
               /\ resp' = [resp EXCEPT ![p] =
                      Response("update", id[p], StatusAccepted, "cluster", <<>>,
                               buildResponse(id[p], sc[p]))]

-----------------------------------------------------------------------------
(* Get and GetAll: GET /clusters/:name and GET /clusters.                   *)

\* The variables no read handler touches.
readOnly == <<store, pc, req, id, sc, vin, vout, files>>

\* Get answering 200 with an empty cluster for a name without a record.
GetFound(p, name) ==
    /\ pc[p] = "idle"
    /\ UNCHANGED readOnly
    /\ race' = [race EXCEPT ![p] = NoRace]
    /\ \E err \in BOOLEAN :
          LET g == getFromStore(name, err) IN
          resp' = [resp EXCEPT ![p] =
              IF g.err = "ErrClusterNotFound"
              THEN ReadResponse("get", name, StatusOK, "cluster", Nil, "")
              ELSE IF g.err # ""
              THEN ReadResponse("get", name, StatusInternalServerError, "", Nil, "store")
              ELSE ReadResponse("get", name, StatusOK, "cluster",
                                buildResponse(name, g.sc), "")]

\* Get: one store Get, answered with the response built from the record.
Get(p, name) ==
    /\ pc[p] = "idle"
    /\ UNCHANGED readOnly
    /\ race' = [race EXCEPT ![p] = NoRace]
    /\ \E err \in BOOLEAN :
          LET g == getFromStore(name, err) IN
          resp' = [resp EXCEPT ![p] =
              IF g.err = "ErrClusterNotFound"
              THEN ReadResponse("get", name, StatusNotFound, "", Nil, "")
              ELSE IF g.err # ""
              THEN ReadResponse("get", name, StatusInternalServerError, "", Nil,
                                IF err THEN "store" ELSE "")
              ELSE ReadResponse("get", name, StatusOK, "cluster",
                                buildResponse(name, g.sc), IF err THEN "store" ELSE "")]

\* The JSON array GetAll encodes for the map msc visited in order o.
clustersResp(msc, o) == [items |-> [i \in 1..Len(o) |-> buildResponse(o[i], msc[o[i]])]]

\* GetAll removing the destroyed records it lists from the store.
GetAllSweeping(p) ==
    /\ pc[p] = "idle"
    /\ UNCHANGED <<pc, req, id, sc, vin, vout, files>>
    /\ race' = [race EXCEPT ![p] = NoRace]
    /\ \E err \in BOOLEAN, absent \in BOOLEAN :
          /\ absent => \A n \in StoreNames : store[n] = Nil
          /\ LET g == getAllFromStore(err, absent) IN
             IF g.err # ""
             THEN /\ resp' = [resp EXCEPT ![p] =
                         ReadResponse("getall", "", StatusInternalServerError, "", Nil, "store")]
                  /\ UNCHANGED store
             ELSE /\ \E o \in orders(DOMAIN g.msc) :
                         resp' = [resp EXCEPT ![p] =
                             ReadResponse("getall", "", StatusOK, "clusters",
                                          clustersResp(g.msc, o), "")]
                  /\ store' = [n \in StoreNames |->
                                  IF store[n] # Nil /\ store[n].CurrentState = "destroyed"
                                  THEN Nil ELSE store[n]]

\* GetAll encoding a nil slice (JSON null) when the store has no record.
GetAllNullWhenEmpty(p) ==
    /\ pc[p] = "idle"
    /\ UNCHANGED readOnly
    /\ race' = [race EXCEPT ![p] = NoRace]
    /\ \E err \in BOOLEAN, absent \in BOOLEAN :
          /\ absent => \A n \in StoreNames : store[n] = Nil
          /\ LET g == getAllFromStore(err, absent) IN
             IF g.err # ""
             THEN resp' = [resp EXCEPT ![p] =
                      ReadResponse("getall", "", StatusInternalServerError, "", Nil,
                                   IF err THEN "store" ELSE "")]
             ELSE \E o \in orders(DOMAIN g.msc) :
                      resp' = [resp EXCEPT ![p] =
                          IF DOMAIN g.msc = {}
                          THEN ReadResponse("getall", "", StatusOK, "null", Nil, "")
                          ELSE ReadResponse("getall", "", StatusOK, "clusters",
                                            clustersResp(g.msc, o), "")]

\* GetAll: one store GetAll, answered with the responses built from the
\* records in the order the range over the map visits them.
GetAll(p) ==
    /\ pc[p] = "idle"
    /\ UNCHANGED readOnly
    /\ race' = [race EXCEPT ![p] = NoRace]
    /\ \E err \in BOOLEAN, absent \in BOOLEAN :
          /\ absent => \A n \in StoreNames : store[n] = Nil
          /\ LET g == getAllFromStore(err, absent) IN
             IF g.err # ""
             THEN resp' = [resp EXCEPT ![p] =
                      ReadResponse("getall", "", StatusInternalServerError, "", Nil,
                                   IF err THEN "store" ELSE "")]
             ELSE \E o \in orders(DOMAIN g.msc) :
                      resp' = [resp EXCEPT ![p] =
                          ReadResponse("getall", "", StatusOK, "clusters",
                                       clustersResp(g.msc, o), IF err THEN "store" ELSE "")]

-----------------------------------------------------------------------------
(* The assets of a cluster: GET /clusters/:name/kubeconfig, /logs, /assets. *)

\* The paths under AssetsDir/name, in the order they are written: the
\* generated directory, the kubeconfig inside it, and the log.
AssetFiles == <<"assets", "assets/kubeconfig", "kismatic.log">>

\* os.Stat(AssetsDir/name/f): "absent" (IsNotExist), "dir" or "file".
osStat(name, f) ==
    IF f \notin files[name] THEN "absent" ELSE IF f = "assets" THEN "dir" ELSE "file"

\* The next path of a cluster's assets is written.
WriteAsset(n) ==
    /\ Cardinality(files[n]) < Len(AssetFiles)
    /\ files' = [files EXCEPT ![n] = @ \cup {AssetFiles[Cardinality(@) + 1]}]
    /\ UNCHANGED <<store, pc, req, id, sc, resp, race, vin, vout>>

\* The answer of GetKubeconfig and GetLogs: the store lookup, then the
\* lookup of the regular file f, then its content.
serveFile(op, name, f, content, err) ==
    IF existsInStore(name, err).err
    THEN ReadResponse(op, name, StatusInternalServerError, "", Nil, IF err THEN "store" ELSE "")
    ELSE IF ~existsInStore(name, err).exists
    THEN ReadResponse(op, name, StatusNotFound, "", Nil, IF err THEN "store" ELSE "")
    ELSE IF osStat(name, f) \in {"absent", "dir"}
    THEN ReadResponse(op, name, StatusInternalServerError, "", Nil, IF err THEN "store" ELSE "")
    ELSE ReadResponse(op, name, StatusOK, content, Nil, IF err THEN "store" ELSE "")

\* GetKubeconfig
GetKubeconfig(p, name) ==
    /\ pc[p] = "idle"
    /\ UNCHANGED readOnly
    /\ race' = [race EXCEPT ![p] = NoRace]
    /\ \E err \in BOOLEAN :
          resp' = [resp EXCEPT ![p] =
                      serveFile("kubeconfig", name, "assets/kubeconfig", "kubeconfig", err)]

\* GetLogs looking the file up before the record.
GetLogsFileFirst(p, name) ==
    /\ pc[p] = "idle"
    /\ UNCHANGED readOnly
    /\ race' = [race EXCEPT ![p] = NoRace]
    /\ \E err \in BOOLEAN :
          resp' = [resp EXCEPT ![p] =
              IF osStat(name, "kismatic.log") \in {"absent", "dir"}
              THEN ReadResponse("logs", name, StatusInternalServerError, "", Nil, "")
              ELSE serveFile("logs", name, "kismatic.log", "logs", err)]

\* GetLogs
GetLogs(p, name) ==
    /\ pc[p] = "idle"
    /\ UNCHANGED readOnly
    /\ race' = [race EXCEPT ![p] = NoRace]
    /\ \E err \in BOOLEAN :
          resp' = [resp EXCEPT ![p] = serveFile("logs", name, "kismatic.log", "logs", err)]

\* GetAssets: the store lookup, the lookup of the generated directory, then
\* a temporary archive of it is made and served. tmpErr: ioutil.TempFile
\* failed, and the deferred os.Remove(tmpf.Name()) dereferences the nil file
\* before the error is looked at: the handler panics and writes no answer.
\* tarErr: the archiver failed.
GetAssets(p, name) ==
    /\ pc[p] = "idle"
    /\ UNCHANGED readOnly
    /\ race' = [race EXCEPT ![p] = NoRace]
    /\ \E err \in BOOLEAN, tmpErr \in BOOLEAN, tarErr \in BOOLEAN :
          /\ (tmpErr \/ tarErr) => (~err /\ storeGet(name) # Nil /\ osStat(name, "assets") = "dir")
          /\ tmpErr => ~tarErr
          /\ LET e == existsInStore(name, err) IN
             resp' = [resp EXCEPT ![p] =
                 IF e.err
                 THEN ReadResponse("assets", name, StatusInternalServerError, "", Nil,
                                   IF err THEN "store" ELSE "")
                 ELSE IF ~e.exists
                 THEN ReadResponse("assets", name, StatusNotFound, "", Nil, "")
                 ELSE IF osStat(name, "assets") # "dir"
                 THEN ReadResponse("assets", name, StatusInternalServerError, "", Nil, "")
                 ELSE IF tmpErr
                 THEN ReadResponse("assets", name, 0, "", Nil, "tempfile")
                 ELSE IF tarErr
                 THEN ReadResponse("assets", name, StatusInternalServerError, "", Nil, "archive")
                 ELSE ReadResponse("assets", name, StatusOK, "assets.tar.gz", Nil, "")]

-----------------------------------------------------------------------------------------------------------------------------------------------------
(* The reconciler (external): consumes the gate and converges the cluster,  *)
(* and purges a destroyed cluster.                                          *)

\* The state the reconciler converges a record to.
targetState(c) == IF c.DesiredState = "destroyed" THEN "destroyed" ELSE "installed"

\* Atomic read-and-clear of the continuation gate, with the report of the
\* state the reconciler converged to.
ReconcilerConverge(n) ==
    /\ store[n] # Nil
    /\ store[n].CanContinue
    /\ store' = [store EXCEPT ![n].CanContinue = FALSE,
                              ![n].CurrentState = targetState(store[n])]
    /\ UNCHANGED <<pc, req, id, sc, resp, race, vin, vout, files>>

\* Hard removal after physical teardown.
ReconcilerPurge(n) ==
    /\ store[n] # Nil
    /\ store[n].DesiredState = "destroyed"
    /\ store[n].CurrentState = "destroyed"
    /\ store' = storeDelete(n)
    /\ UNCHANGED <<pc, req, id, sc, resp, race, vin, vout, files>>

-----
(* The handler specification.                                               *)

Init ==
    /\ store = [n \in StoreNames |-> Nil]
    /\ pc = [p \in Procs |-> "idle"]
    /\ req = [p \in Procs |-> Nil]
    /\ id = [p \in Procs |-> ""]
    /\ sc = [p \in Procs |-> Nil]
    /\ resp = [p \in Procs |-> NoResponse]
    /\ race = [p \in Procs |-> NoRace]
    /\ vin = Nil
    /\ vout = Nil
    /\ files = [n \in StoreNames |-> {}]

Next ==
    \/ \E p \in Procs, body \in HandlerBodies : CreateStart(p, body)
    \/ \E p \in Procs : CreateExists(p)
    \/ \E p \in Procs : CreatePut(p)
    \/ \E p \in Procs, name \in HandlerIds : DeleteGet(p, name)
    \/ \E p \in Procs : DeletePut(p)
    \/ \E p \in Procs, name \in HandlerIds, body \in PatchBodies : UpdateGet(p, name, body)
    \/ \E p \in Procs : UpdatePut(p)
    \/ \E n \in StoreNames : ReconcilerConverge(n)
    \/ \E n \in StoreNames : ReconcilerPurge(n)

Spec == Init /\ [][Next]_vars

-----------------------------------------------------------------------------
(* The read specification: one caller runs Create, Update and Delete, the   *)
(* reconciler runs, the assets get written, and another caller reads        *)
(* between any two store calls of the first.                                *)

Writer == "c1"

Reader == "c2"

\* The bodies the writer sends: foo with two worker counts and two sets of
\* credentials, and bar.
ReadBodies == {b \in ValidBodies : b.EtcdCount = 1}

NextRead ==
    \/ \E body \in ReadBodies : CreateStart(Writer, body)
    \/ CreateExists(Writer)
    \/ CreatePut(Writer)
    \/ \E name \in HandlerIds : DeleteGet(Writer, name)
    \/ DeletePut(Writer)
    \/ \E name \in HandlerIds, body \in ReadBodies : UpdateGet(Writer, name, body)
    \/ UpdatePut(Writer)
    \/ \E n \in StoreNames : ReconcilerConverge(n)
    \/ \E n \in StoreNames : ReconcilerPurge(n)
    \/ \E n \in HandlerIds : WriteAsset(n)
    \/ \E name \in StoreNames : Get(Reader, name)
    \/ GetAll(Reader)
    \/ \E name \in HandlerIds : GetKubeconfig(Reader, name)
    \/ \E name \in HandlerIds : GetLogs(Reader, name)
    \/ \E name \in HandlerIds : GetAssets(Reader, name)

SpecRead == Init /\ [][NextRead]_vars

-----------------------------------------------------------------------------
(* The validation specification: the validation functions applied to        *)
(* inputs drawn from bounded sets.                                          *)

VCounts == (-1)..MaxCount

VOptions == {Nil} \cup [AccessKeyID : {"", "ACCESS_ID"}, SecretAccessKey : {"", "SECRET"}]

VProvisioners == [Provider : {"", "aws", "foobar"}, AWSOptions : VOptions]

\* Create requests: every combination of names, states, counts and
\* provisioners, valid and invalid.
VRequests ==
    [Name : {"", "foo"}, DesiredState : {"", "installed", "bar"},
     EtcdCount : VCounts, MasterCount : VCounts, WorkerCount : VCounts,
     IngressCount : VCounts, Provisioner : VProvisioners]

\* Patch requests: every combination of names and counts, with the
\* credentials of the stored record, new credentials, or no provider.
VPatchRequests ==
    [Name : {"", "foo", "bar"}, DesiredState : {"", "installed"},
     EtcdCount : VCounts, MasterCount : VCounts, WorkerCount : VCounts,
     IngressCount : VCounts,
     Provisioner : {AWS("ACCESS_ID", "SECRET"), AWS("ACCESS_ID_NEW", "SECRET_NEW"),
                    Provisioner("", Nil)}]

\* Stored records a patch is validated against.
VStored ==
    {buildStoreCluster(ClusterRequest(n, "installed", e, 1, 1, 0, AWS("ACCESS_ID", "SECRET"))) :
        n \in {"foo", "bar"}, e \in 1..MaxCount}

\* The inputs of a validation run: a create request, a provisioner, or a
\* patch (path id, request, stored record).
VInput(v) ==
    \/ v \in [kind : {"create"}, request : VRequests]
    \/ v \in [kind : {"provisioner"}, provisioner : VProvisioners]
    \/ v \in [kind : {"patch"}, id : {"foo", "bar"}, request : VPatchRequests,
              inStore : VStored]

\* What a validate() call returns.
Validation(errs) == [ok |-> valid(errs), errs |-> errs]

InitValidate ==
    /\ VInput(vin)
    /\ store = [n \in StoreNames |->
                   IF vin.kind = "patch" /\ n = vin.inStore.Plan.Cluster.Name
                   THEN vin.inStore ELSE Nil]
    /\ pc = [p \in Procs |-> "idle"]
    /\ req = [p \in Procs |-> Nil]
    /\ id = [p \in Procs |-> ""]
    /\ sc = [p \in Procs |-> Nil]
    /\ resp = [p \in Procs |-> NoResponse]
    /\ race = [p \in Procs |-> NoRace]
    /\ vout = Nil
    /\ files = [n \in StoreNames |-> {}]

\* r.validate() on a create request.
RunValidate ==
    /\ vin.kind = "create"
    /\ vout = Nil
    /\ vout' = Validation(ClusterRequestValidate(vin.request))
    /\ UNCHANGED <<store, pc, req, id, sc, resp, race, vin, files>>

\* p.validate() on a provisioner.
RunProvisionerValidate ==
    /\ vin.kind = "provisioner"
    /\ vout = Nil
    /\ vout' = Validation(ProvisionerValidate(vin.provisioner))
    /\ UNCHANGED <<store, pc, req, id, sc, resp, race, vin, files>>

\* cp.validate() on a patch.
RunPatchValidate ==
    /\ vin.kind = "patch"
    /\ vout = Nil
    /\ vout' = Validation(clusterPatchValidate(
                   [id |-> vin.id, request |-> vin.request, inStore |-> vin.inStore]))
    /\ UNCHANGED <<store, pc, req, id, sc, resp, race, vin, files>>

\* The Create handler given the request as its body, up to its answer or
\* its existence check.
RunCreate ==
    /\ vin.kind = "create"
    /\ resp["c1"] = NoResponse
    /\ CreateStart("c1", vin.request)

\* The Create handler goes on: the existence check.
RunCreateExists ==
    /\ vin.kind = "create"
    /\ CreateExists(Writer)

\* The Create handler goes on: the Put.
RunCreatePut ==
    /\ vin.kind = "create"
    /\ CreatePut(Writer)

\* The Update handler given the patch's path id and request, on the store
\* that holds the patch's stored record.
RunUpdate ==
    /\ vin.kind = "patch"
    /\ resp[Writer] = NoResponse
    /\ UpdateGet(Writer, vin.id, vin.request)

\* The Update handler goes on: the Put.
RunUpdatePut ==
    /\ vin.kind = "patch"
    /\ UpdatePut(Writer)

\* The writer's Create or Update was accepted and nothing was read since.
accepted ==
    /\ pc[Writer] = "idle"
    /\ resp[Writer].code = StatusAccepted
    /\ resp[Reader] = NoResponse

\* A Get right after the accepted call.
RunGet ==
    /\ accepted
    /\ \E name \in StoreNames : Get(Reader, name)

\* A GetAll right after the accepted call.
RunGetAll ==
    /\ accepted
    /\ GetAll(Reader)

NextValidate ==
    \/ RunValidate
    \/ RunProvisionerValidate
    \/ RunPatchValidate
    \/ RunCreate
    \/ RunCreateExists
    \/ RunCreatePut
    \/ RunUpdate
    \/ RunUpdatePut
    \/ RunGet
    \/ RunGetAll

SpecValidate == InitValidate /\ [][NextValidate]_vars

-----------------------------------------------------------------------------
(* Properties of the handlers.                                              *)

\* The names that have a record in store s.
records(s) == {n \in DOMAIN s : s[n] # Nil}

\* Caller p ended its handler in this step from position at.
ended(p, at) == pc[p] = at /\ pc'[p] = "idle"

\* C1: a Create whose existence check finds a record for its name answers
\* 409 Conflict, does not go on to the Put, and leaves every record of the
\* store unchanged.
C1_DuplicateCreateConflict ==
    [][\A p \in Procs :
          (/\ pc[p] = "create_exists"
           /\ pc'[p] # "create_exists"
           /\ storeGet(req[p].Name) # Nil
           /\ resp'[p].code # StatusInternalServerError)
          => (/\ pc'[p] = "idle"
              /\ resp'[p].op = "create"
              /\ resp'[p].code = StatusConflict
              /\ store' = store)]_vars

\* A Create of foo was answered 409 while foo and bar have records.
C1_Witness ==
    \E p \in Procs :
        /\ resp[p].op = "create"
        /\ resp[p].code = StatusConflict
        /\ resp[p].name = "foo"
        /\ store["foo"] # Nil
        /\ store["bar"] # Nil

\* Both callers ended Creates of one name that overlapped while the name
\* was free, each answered 202 or 409.
racedCreates(p, q) ==
    /\ p # q
    /\ pc[p] = "idle" /\ pc[q] = "idle"
    /\ race[p] # "no" /\ race[q] # "no"
    /\ resp[p].op = "create" /\ resp[q].op = "create"
    /\ resp[p].name = resp[q].name
    /\ resp[p].code \in {StatusAccepted, StatusConflict}
    /\ resp[q].code \in {StatusAccepted, StatusConflict}

\* C2: of two concurrent Creates of the same free name, exactly one is
\* answered 409 and only one 202.
C2_ExactlyOneConflict ==
    \A p \in Procs, q \in Procs :
        racedCreates(p, q) =>
            \/ resp[p].code = StatusAccepted /\ resp[q].code = StatusConflict
            \/ resp[p].code = StatusConflict /\ resp[q].code = StatusAccepted

\* C3: every accepted Create, Update and Delete leaves the record of its
\* name with the continuation gate set, and no step of a handler writes a
\* record whose gate is false.
C3_GateSetOnMutation ==
    [][\A p \in Procs :
          (ended(p, "create_put") \/ ended(p, "update_put") \/ ended(p, "delete_put"))
          => (/\ resp'[p].code = StatusAccepted
                 => (/\ store'[resp'[p].name] # Nil
                     /\ store'[resp'[p].name].CanContinue)
              /\ \A n \in StoreNames :
                    store'[n] # store[n] => (store'[n] # Nil /\ store'[n].CanContinue))]_vars

\* A Delete was accepted for a record the reconciler had converged (gate
\* cleared, state installed), and the gate is set again.
C3_Witness ==
    \E p \in Procs :
        /\ resp[p].op = "delete"
        /\ resp[p].code = StatusAccepted
        /\ store["foo"] # Nil
        /\ store["foo"].CurrentState = "installed"
        /\ store["foo"].CanContinue

\* C4: an accepted Delete answers 202 "ok\n" and removes no record: the
\* record of its name is in the store afterwards with DesiredState
\* "destroyed" and the gate set, every other record is still there, and the
\* number of records is the one before the Put; Delete answers 404 only
\* when the name has no record.
C4_DeleteIsLogical ==
    [][\A p \in Procs :
          /\ (ended(p, "delete_put") /\ resp'[p].code = StatusAccepted)
             => (/\ resp'[p].body = "ok\n"
                 /\ store'[id[p]] # Nil
                 /\ store'[id[p]].DesiredState = "destroyed"
                 /\ store'[id[p]].CanContinue
                 /\ records(store) \subseteq records(store')
                 /\ (store[id[p]] # Nil
                        => Cardinality(records(store')) = Cardinality(records(store))))
          /\ (pc[p] = "idle" /\ pc'[p] = "delete_put") => store' = store
          /\ (/\ pc[p] = "idle" /\ resp'[p] # resp[p]
              /\ resp'[p].op = "delete" /\ resp'[p].code = StatusNotFound)
             => storeGet(resp'[p].name) = Nil]_vars

\* A Delete of foo was accepted and foo's record is still stored, destroyed.
C4_Witness ==
    \E p \in Procs :
        /\ resp[p].op = "delete"
        /\ resp[p].code = StatusAccepted
        /\ resp[p].body = "ok\n"
        /\ store["foo"] # Nil
        /\ store["foo"].DesiredState = "destroyed"
        /\ store["foo"].CanContinue
        /\ store["bar"] # Nil

\* C5: while a name keeps a record, the etcd count stored in its plan never
\* changes.
C5_EtcdCountImmutable ==
    [][\A n \in StoreNames :
          (store[n] # Nil /\ store'[n] # Nil)
          => store'[n].Plan.Etcd.ExpectedCount = store[n].Plan.Etcd.ExpectedCount]_vars

-----------------------------------------------------------------------------
(* Properties of validation. The rules are restated here as the             *)
(* specification words them, independently of the validate operators.       *)

only(rule, violated) == IF violated THEN {rule} ELSE {}

\* The provisioner rules a provisioner violates.
provisionerViolations(p) ==
    only("provider", p.Provider \notin {"aws"})
    \cup only("accessKeyID",
              p.Provider = "aws" /\ (p.AWSOptions = Nil \/ p.AWSOptions.AccessKeyID = ""))
    \cup only("secretAccessKey",
              p.Provider = "aws" /\ (p.AWSOptions = Nil \/ p.AWSOptions.SecretAccessKey = ""))

\* The create rules a request violates.
createViolations(r) ==
    only("name", r.Name = "")
    \cup only("desiredState", r.DesiredState \notin {"installed"})
    \cup only("etcdCount", ~(r.EtcdCount > 0))
    \cup only("masterCount", ~(r.MasterCount > 0))
    \cup only("workerCount", ~(r.WorkerCount > 0))
    \cup only("ingressCount", ~(r.IngressCount >= 0))
    \cup provisionerViolations(r.Provisioner)

\* The messages that report a violation of a rule by request r.
messagesOf(rule, r) ==
    CASE rule = "name" -> {"name cannot be empty"}
      [] rule = "desiredState" ->
             {"desiredState cannot be empty",
              r.DesiredState \o " is not a valid desiredState, options are: [installed]"}
      [] rule = "etcdCount" -> {"cluster.etcdCount must be greater than 0"}
      [] rule = "masterCount" -> {"cluster.masterCount must be greater than 0"}
      [] rule = "workerCount" -> {"cluster.workerCount must be greater than 0"}
      [] rule = "ingressCount" -> {"cluster.ingressCount must be greater than or equal to 0"}
      [] rule = "provider" ->
             {"provisioner.provider cannot be empty",
              r.Provisioner.Provider \o " is not a valid provisioner.provider, options are: [aws]"}
      [] rule = "accessKeyID" -> {"provisioner.options.accessKeyID cannot be empty"}
      [] rule = "secretAccessKey" -> {"provisioner.options.secretAccessKey cannot be empty"}

\* The elements of a sequence.
elements(seq) == {seq[i] : i \in 1..Len(seq)}

created == vin.kind = "create" /\ vout # Nil

patched == vin.kind = "patch" /\ vout # Nil

\* C6: a patch passes validation exactly when its request violates no
\* create rule, the path id is the request's name, the request's name is
\* the stored name and the request's etcd count is the stored etcd count.
C6_PatchValidation ==
    patched =>
        (vout.ok <=> /\ createViolations(vin.request) = {}
                     /\ vin.id = vin.request.Name
                     /\ vin.request.Name = vin.inStore.Plan.Cluster.Name
                     /\ vin.request.EtcdCount = vin.inStore.Plan.Etcd.ExpectedCount)

\* A patch that changes the master, worker and ingress counts and the
\* credentials of the stored record passed validation.
C6_Witness ==
    /\ patched
    /\ vout.ok
    /\ vin.request.MasterCount # vin.inStore.Plan.Master.ExpectedCount
    /\ vin.request.WorkerCount # vin.inStore.Plan.Worker.ExpectedCount
    /\ vin.request.IngressCount # vin.inStore.Plan.Ingress.ExpectedCount
    /\ vin.request.Provisioner.AWSOptions.AccessKeyID
           # vin.inStore.ProvisionerCredentials.AWS.AccessKeyId

\* C7: validate returns one error for each rule the request violates, with
\* a message of that rule, and is ok exactly when it returns no error.
C7_NoShortCircuit ==
    created =>
        /\ Len(vout.errs) = Cardinality(createViolations(vin.request))
        /\ \A rule \in createViolations(vin.request) :
               messagesOf(rule, vin.request) \cap elements(vout.errs) # {}
        /\ vout.ok <=> vout.errs = <<>>

\* A request that violates eight rules at once (name, desiredState, the
\* four counts and both credentials of provider "aws") got eight errors.
C7_Witness ==
    /\ created
    /\ Cardinality(createViolations(vin.request)) = 8
    /\ Len(vout.errs) = 8

\* C8: a create request with an etcd, master or worker count <= 0 or an
\* ingress count < 0 fails validation, and a request that violates nothing
\* and has ingress count 0 passes.
C8_CountRules ==
    created =>
        /\ (\/ vin.request.EtcdCount <= 0
            \/ vin.request.MasterCount <= 0
            \/ vin.request.WorkerCount <= 0
            \/ vin.request.IngressCount < 0) => ~vout.ok
        /\ (/\ vin.request.IngressCount = 0
            /\ createViolations([vin.request EXCEPT !.IngressCount = 1]) = {}) => vout.ok

\* A request with ingress count 0 passed validation.
C8_Witness ==
    /\ created
    /\ vin.request.IngressCount = 0
    /\ vout.ok

\* C9: a create request with an empty name fails validation with the
\* violation "name cannot be empty", and the Create handler answers it 400.
C9_EmptyName ==
    (vin.kind = "create" /\ vin.request.Name = "") =>
        /\ vout # Nil => (~vout.ok /\ "name cannot be empty" \in elements(vout.errs))
        /\ pc["c1"] = "idle"
        /\ resp["c1"] # NoResponse =>
               /\ resp["c1"].code = StatusBadRequest
               /\ "name cannot be empty" \in elements(resp["c1"].errs)

\* A request whose only violation is the empty name was validated and
\* answered 400.
C9_Witness ==
    /\ created
    /\ vin.request.Name = ""
    /\ createViolations(vin.request) = {"name"}
    /\ resp["c1"].code = StatusBadRequest

\* C10: a provisioner passes validation exactly when its provider is "aws"
\* and its options are present with a non-empty access key id and a
\* non-empty secret access key; a create request passes only with such a
\* provisioner.
C10_ProvisionerRules ==
    /\ (vin.kind = "provisioner" /\ vout # Nil) =>
           (vout.ok <=> /\ vin.provisioner.Provider = "aws"
                        /\ vin.provisioner.AWSOptions # Nil
                        /\ vin.provisioner.AWSOptions.AccessKeyID # ""
                        /\ vin.provisioner.AWSOptions.SecretAccessKey # "")
    /\ (created /\ vout.ok) =>
           /\ vin.request.Provisioner.Provider = "aws"
           /\ vin.request.Provisioner.AWSOptions # Nil
           /\ vin.request.Provisioner.AWSOptions.AccessKeyID # ""
           /\ vin.request.Provisioner.AWSOptions.SecretAccessKey # ""

\* A provisioner "aws" with an access key id and an empty secret access key
\* failed validation.
C10_Witness ==
    /\ vin.kind = "provisioner"
    /\ vout # Nil
    /\ ~vout.ok
    /\ vin.provisioner.Provider = "aws"
    /\ vin.provisioner.AWSOptions # Nil
    /\ vin.provisioner.AWSOptions.AccessKeyID # ""
    /\ vin.provisioner.AWSOptions.SecretAccessKey = ""

-----------------------------------------------------------------------------
(* Properties of a call and the read that follows it (validation            *)
(* specification: the request is vin.request).                              *)

\* The reader's Get of the created name was answered right after the
\* writer's accepted Create, with no failed store call.
readBack ==
    /\ vin.kind = "create"
    /\ resp[Writer].op = "create"
    /\ resp[Writer].code = StatusAccepted
    /\ resp[Reader].op = "get"
    /\ resp[Reader].name = vin.request.Name
    /\ resp[Reader].failed = ""

\* C11: a Get of a name right after its accepted Create answers 200 with
\* that name, the requested desiredState, CurrentState "planned" and the
\* requested etcd, master, worker and ingress counts.
C11_RoundTrip ==
    readBack =>
        /\ resp[Reader].code = StatusOK
        /\ resp[Reader].cluster.Name = vin.request.Name
        /\ resp[Reader].cluster.DesiredState = vin.request.DesiredState
        /\ resp[Reader].cluster.CurrentState = "planned"
        /\ resp[Reader].cluster.EtcdCount = vin.request.EtcdCount
        /\ resp[Reader].cluster.MasterCount = vin.request.MasterCount
        /\ resp[Reader].cluster.WorkerCount = vin.request.WorkerCount
        /\ resp[Reader].cluster.IngressCount = vin.request.IngressCount

\* A Create with the largest etcd and worker counts, one master and one
\* ingress node was accepted and read back with a 200.
C11_Witness ==
    /\ readBack
    /\ resp[Reader].code = StatusOK
    /\ vin.request.EtcdCount = MaxCount
    /\ vin.request.MasterCount = 1
    /\ vin.request.WorkerCount = MaxCount
    /\ vin.request.IngressCount = 1

\* The patch is valid for the stored record and changes its worker count
\* and nothing else.
onlyWorkerChanged ==
    /\ vin.kind = "patch"
    /\ createViolations(vin.request) = {}
    /\ vin.id = vin.request.Name
    /\ vin.request.Name = vin.inStore.Plan.Cluster.Name
    /\ vin.request.EtcdCount = vin.inStore.Plan.Etcd.ExpectedCount
    /\ vin.request.MasterCount = vin.inStore.Plan.Master.ExpectedCount
    /\ vin.request.IngressCount = vin.inStore.Plan.Ingress.ExpectedCount
    /\ vin.request.WorkerCount # vin.inStore.Plan.Worker.ExpectedCount
    /\ vin.request.Provisioner.AWSOptions.AccessKeyID
           = vin.inStore.ProvisionerCredentials.AWS.AccessKeyId
    /\ vin.request.Provisioner.AWSOptions.SecretAccessKey
           = vin.inStore.ProvisionerCredentials.AWS.SecretAccessKey

\* C12: an Update of a created cluster that changes only the worker count
\* is answered 202 with CurrentState "planned" and the new worker count;
\* a GetAll after it lists one record, and a Get of another name, never
\* created, answers 404.
C12_UpdateWorkerCount ==
    onlyWorkerChanged =>
        /\ (resp[Writer].op = "update" /\ resp[Writer].code # StatusInternalServerError)
           => (/\ resp[Writer].code = StatusAccepted
               /\ resp[Writer].cluster.CurrentState = "planned"
               /\ resp[Writer].cluster.WorkerCount = vin.request.WorkerCount)
        /\ (resp[Reader].op = "getall" /\ resp[Reader].failed = "")
           => (/\ resp[Reader].code = StatusOK
               /\ Len(resp[Reader].cluster.items) = 1)
        /\ (resp[Reader].op = "get" /\ resp[Reader].name # vin.id /\ resp[Reader].failed = "")
           => resp[Reader].code = StatusNotFound

\* An Update of foo from one worker to the largest count was accepted, and
\* the Get of the other name after it was answered 404.
C12_Witness ==
    /\ onlyWorkerChanged
    /\ vin.id = "foo"
    /\ vin.request.WorkerCount = MaxCount
    /\ resp[Writer].op = "update"
    /\ resp[Writer].code = StatusAccepted
    /\ resp[Writer].cluster.WorkerCount = MaxCount
    /\ resp[Reader].op = "get"
    /\ resp[Reader].name = "bar"
    /\ resp[Reader].code = StatusNotFound

-----------------------------------------------------------------------------
(* Properties of the read handlers (read specification).                    *)

\* Caller p was answered by a handler of one of the operations ops in this
\* step.
answered(p, ops) == resp'[p] # resp[p] /\ resp'[p].op \in ops

\* C13: a step of Get, GetAll, GetKubeconfig, GetLogs or GetAssets leaves
\* the store as it was: every record and every missing record.
C13_ReadsDoNotWrite ==
    [][\A p \in Procs : answered(p, ReadOps) => store' = store]_vars

\* A GetAll listed two records, one of them torn down (CurrentState
\* destroyed), and that record is still stored.
C13_Witness ==
    /\ resp[Reader].op = "getall"
    /\ resp[Reader].code = StatusOK
    /\ Len(resp[Reader].cluster.items) = 2
    /\ \E i \in 1..2 :
          /\ resp[Reader].cluster.items[i].CurrentState = "destroyed"
          /\ store[resp[Reader].cluster.items[i].Name] # Nil
          /\ store[resp[Reader].cluster.items[i].Name].CurrentState = "destroyed"

\* C14: a GetAll whose store call does not fail on a store without records,
\* whether the backend returns an empty or a nil map, answers 200 with an
\* empty list.
C14_GetAllEmpty ==
    [][\A p \in Procs :
          (/\ answered(p, {"getall"})
           /\ resp'[p].failed = ""
           /\ records(store) = {})
          => (/\ resp'[p].code = StatusOK
              /\ resp'[p].body = "clusters"
              /\ resp'[p].cluster # Nil
              /\ Len(resp'[p].cluster.items) = 0)]_vars

\* A GetAll was answered 200 with an empty list, the store having no
\* record after a record was created, destroyed and purged.
C14_Witness ==
    /\ resp[Reader].op = "getall"
    /\ resp[Reader].code = StatusOK
    /\ Len(resp[Reader].cluster.items) = 0
    /\ records(store) = {}
    /\ resp[Writer].op = "delete"
    /\ resp[Writer].code = StatusAccepted

\* C15: Get answers 404 exactly when its store call did not fail and found
\* no record, and 500 exactly when its store call failed.
C15_GetNotFoundVsError ==
    [][\A p \in Procs :
          answered(p, {"get"})
          => (/\ resp'[p].code = StatusNotFound
                    <=> (resp'[p].failed = "" /\ store[resp'[p].name] = Nil)
              /\ resp'[p].code = StatusInternalServerError
                    <=> resp'[p].failed = "store")]_vars

\* A Get whose store call failed was answered 500 for a name that has no
\* record.
C15_Witness ==
    /\ resp[Reader].op = "get"
    /\ resp[Reader].code = StatusInternalServerError
    /\ resp[Reader].failed = "store"
    /\ store[resp[Reader].name] = Nil
    /\ records(store) # {}

\* The options of a cluster response hold no access key id and no secret
\* access key.
noCredentials(c) ==
    \/ c.Provisioner.AWSOptions = Nil
    \/ /\ c.Provisioner.AWSOptions.AccessKeyID = ""
       /\ c.Provisioner.AWSOptions.SecretAccessKey = ""

\* The cluster responses in an answer.
clustersOf(a) ==
    IF a.cluster = Nil THEN {}
    ELSE IF a.op = "getall" THEN elements(a.cluster.items)
    ELSE {a.cluster}

\* Provisioner credentials a record could hold instead of its own.
OtherCredentials ==
    {ProvisionerCredentials("", ""), ProvisionerCredentials("ACCESS_ID", "SECRET"),
     ProvisionerCredentials("OTHER_ID", "OTHER_SECRET")}

\* C17: no answer of Get, GetAll or Update holds an access key id or a
\* secret access key; the response built from a stored record does not
\* depend on the record's credentials; the record keeps its credentials in
\* ProvisionerCredentials and its plan's provisioner options hold none.
C17_NoCredentialsInResponses ==
    /\ \A p \in Procs : \A c \in clustersOf(resp[p]) : noCredentials(c)
    /\ \A n \in records(store) :
          /\ \A cr \in OtherCredentials :
                buildResponse(n, [store[n] EXCEPT !.ProvisionerCredentials = cr])
                    = buildResponse(n, store[n])
          /\ noCredentials(buildResponse(n, store[n]))
          /\ \/ store[n].Plan.Provisioner.AWSOptions = Nil
             \/ store[n].Plan.Provisioner.AWSOptions = InstallAWSOptions
          /\ store[n].ProvisionerCredentials.AWS.AccessKeyId # ""
          /\ store[n].ProvisionerCredentials.AWS.SecretAccessKey # ""

\* An Update with new credentials was accepted, the record holds them, and
\* a Get of it was answered 200 with options.
C17_Witness ==
    /\ resp[Writer].op = "update"
    /\ resp[Writer].code = StatusAccepted
    /\ resp[Writer].cluster.Provisioner.AWSOptions # Nil
    /\ resp[Reader].op = "get"
    /\ resp[Reader].code = StatusOK
    /\ resp[Reader].name = "foo"
    /\ resp[Reader].cluster.Provisioner.AWSOptions # Nil
    /\ store["foo"] # Nil
    /\ store["foo"].ProvisionerCredentials.AWS.AccessKeyId = "ACCESS_ID_NEW"
    /\ store["foo"].ProvisionerCredentials.AWS.SecretAccessKey = "SECRET_NEW"

\* The path each asset endpoint serves.
expectedFile(op) ==
    CASE op = "kubeconfig" -> "assets/kubeconfig"
      [] op = "logs" -> "kismatic.log"
      [] op = "assets" -> "assets"

\* C20: GetKubeconfig, GetLogs and GetAssets, when none of their I/O calls
\* fails, answer 404 when the name has no record whether or not the path is
\* there, 500 when it has a record and the path they serve is missing, and
\* 200 when it has a record and the path is there; a failed call is never
\* answered 200 or 404.
C20_AssetEndpoints ==
    [][\A p \in Procs :
          answered(p, {"kubeconfig", "logs", "assets"})
          => LET a == resp'[p]
                 has == store[a.name] # Nil
                 present == expectedFile(a.op) \in files[a.name]
             IN  /\ a.failed = ""
                    => (/\ ~has => a.code = StatusNotFound
                        /\ (has /\ ~present) => a.code = StatusInternalServerError
                        /\ (has /\ present) => a.code = StatusOK)
                 /\ a.failed # "" => a.code \notin {StatusOK, StatusNotFound}]_vars

\* GetLogs was answered 404 for a name without a record and without a log.
C20_Witness ==
    /\ resp[Reader].op = "logs"
    /\ resp[Reader].code = StatusNotFound
    /\ store[resp[Reader].name] = Nil
    /\ "kismatic.log" \notin files[resp[Reader].name]
    /\ "assets/kubeconfig" \in files[resp[Reader].name]

-----------------------------------------------------------------------------
(* Properties of the failing paths of Create and Delete (handler            *)
(* specification).                                                          *)

\* C16: a Delete whose Get finds no record ends there, answered 404 (500
\* when the Get failed), never goes on to the Put and leaves the store
\* unchanged.
C16_DeleteAbsent ==
    [][\A p \in Procs :
          /\ (pc[p] = "idle" /\ pc'[p] = "delete_put") => store[id'[p]] # Nil
          /\ (/\ pc[p] = "idle"
              /\ answered(p, {"delete"})
              /\ store[resp'[p].name] = Nil)
             => (/\ resp'[p].code \in {StatusNotFound, StatusInternalServerError}
                 /\ pc'[p] = "idle"
                 /\ sc'[p] = sc[p]
                 /\ store' = store)]_vars

\* A Delete of foo was answered 404 and foo has no record, while bar has.
C16_Witness ==
    \E p \in Procs :
        /\ resp[p].op = "delete"
        /\ resp[p].code = StatusNotFound
        /\ resp[p].name = "foo"
        /\ pc[p] = "idle"
        /\ store["foo"] = Nil
        /\ store["bar"] # Nil

\* Caller p takes a step of its Create handler.
createStep(p) ==
    \/ pc[p] = "idle" /\ (pc'[p] = "create_exists" \/ answered(p, {"create"}))
    \/ pc[p] \in {"create_exists", "create_put"} /\ pc'[p] # pc[p]

\* C18: every step of a Create other than the Put of an accepted Create
\* leaves the store unchanged; a Create goes on to the existence check only
\* with a request that violates no rule, and a Create that ends before the
\* existence check is answered 400, never 409.
C18_NoPartialCommit ==
    [][\A p \in Procs :
          /\ (createStep(p) /\ ~(pc[p] = "create_put" /\ resp'[p].code = StatusAccepted))
             => store' = store
          /\ (pc[p] = "idle" /\ pc'[p] = "create_exists")
             => createViolations(req'[p]) = {}
          /\ (pc[p] = "idle" /\ answered(p, {"create"}))
             => (/\ resp'[p].code = StatusBadRequest
                 /\ pc'[p] = "idle")
          /\ (createStep(p) /\ resp'[p].code = StatusConflict) => pc[p] = "create_exists"]_vars

\* A Create for foo that breaks two rules was answered 400 with its two
\* messages while foo has a record.
C18_Witness ==
    \E p \in Procs :
        /\ resp[p].op = "create"
        /\ resp[p].code = StatusBadRequest
        /\ resp[p].name = "foo"
        /\ Len(resp[p].errs) = 2
        /\ store["foo"] # Nil

-----------------------------------------------------------------------------
(* Properties of the stored records (validation specification).             *)

\* C19: every stored record has a master count > 0, a worker count > 0 and
\* an ingress count >= 0.
C19_StoredCountsValid ==
    \A n \in records(store) :
        /\ store[n].Plan.Master.ExpectedCount > 0
        /\ store[n].Plan.Worker.ExpectedCount > 0
        /\ store[n].Plan.Ingress.ExpectedCount >= 0

\* An Update to the largest master count and no ingress node was accepted
\* and its record is stored.
C19_Witness ==
    /\ vin.kind = "patch"
    /\ resp[Writer].op = "update"
    /\ resp[Writer].code = StatusAccepted
    /\ store[vin.id] # Nil
    /\ store[vin.id].Plan.Master.ExpectedCount = MaxCount
    /\ store[vin.id].Plan.Worker.ExpectedCount = MaxCount
    /\ store[vin.id].Plan.Ingress.ExpectedCount = 0

-----------------------------------------------------------------------------
(* Properties of a logically deleted record (handler specification).        *)

\* Name n holds a record that a Delete marked destroyed and that was not
\* removed yet.
reserved(n) == store[n] # Nil /\ store[n].DesiredState = "destroyed"

\* C21: while a name holds a logically deleted record, no Create for that
\* name is accepted (202) and no step of a Create changes the record's
\* DesiredState from "destroyed".
C21_DeletedNameReserved ==
    [][\A p \in Procs :
          (createStep(p) /\ pc[p] = "create_put" /\ reserved(req[p].Name))
          => (/\ resp'[p].code # StatusAccepted
              /\ reserved(req[p].Name)')]_vars

\* C22: the Put of an accepted Delete leaves the Plan, the CurrentState and
\* the ProvisionerCredentials of its record as they were stored just before
\* the Put.
C22_DeleteKeepsOtherFields ==
    [][\A p \in Procs :
          (/\ ended(p, "delete_put")
           /\ resp'[p].code = StatusAccepted
           /\ store[id[p]] # Nil)
          => (/\ store'[id[p]].Plan = store[id[p]].Plan
              /\ store'[id[p]].CurrentState = store[id[p]].CurrentState
              /\ store'[id[p]].ProvisionerCredentials
                     = store[id[p]].ProvisionerCredentials)]_vars

====
